---- MODULE Spec2Model ----
(***************************************************************************)
(* Model of the control logic of the SSAI experiment scripts:              *)
(*   - tf2_tutorial_gan_210217.py: the adversarial training step, the      *)
(*     epoch driver with its visualisation and checkpoint side effects,    *)
(*     and the module-level train / restore / GIF sequence;                *)
(*   - stroke_unet.py: the DWI / ADC / mask file matching.                 *)
(* Tensors are abstracted to their shape and provenance (which draw, which *)
(* parameter version produced them); parameter sets are abstracted to the  *)
(* number of updates they have received.                                   *)
(***************************************************************************)
EXTENDS Integers, Sequences, FiniteSets, TLC

(***************************************************************************)
(* Program constants of tf2_tutorial_gan_210217.py                          *)
(***************************************************************************)
BUFFER_SIZE == 60000
BATCH_SIZE == 256
EPOCHS == 50
noise_dim == 100
num_examples_to_generate == 16
SaveEvery == 15

(***************************************************************************)
(* Bounds of the model                                                      *)
(***************************************************************************)
MaxEpochs == 31
MaxFullBatches == 1
NumDraws == 2

None == "None"

VARIABLES
    pc,                         \* position of the script
    failedAt,                   \* position at which an error was raised, or None
    numImages,                  \* number of images of train_dataset
    epochs,                     \* argument of train
    epoch,                      \* loop variable of train (0-indexed)
    batchIdx,                   \* batches of the current epoch already consumed
    image_batch,                \* train_step argument
    seed,                       \* module-level latent batch for visualisation
    generator,                  \* generator variables
    discriminator,              \* discriminator variables
    generator_optimizer,
    discriminator_optimizer,
    noise,                      \* train_step locals
    generated_images,
    real_output,
    fake_output,
    gen_loss,
    disc_loss,
    gradients_of_generator,
    gradients_of_discriminator,
    tapeCalls,                  \* number of gradient() calls per tape
    forwardCalls,               \* number of training-mode forward passes per network
    nTrainStep,                 \* completed calls of train_step
    gen_losses,
    disc_losses,
    imageFiles,                 \* image_at_epoch_NNNN.png files: epoch number -> content
    visLog,                     \* calls of generate_and_save_images, in order
    checkpoints,                \* checkpoints saved under checkpoint_prefix, in order
    saveLog,                    \* 1-indexed epoch numbers at which checkpoint.save ran
    epochEnd,                   \* network state when the last completed epoch ended
    restored,                   \* checkpoint.restore has run
    gifFrames,                  \* frames appended to dcgan.gif
    \* stroke_unet.py
    mpc,                        \* position in get_matched_fpath / load_images
    is_DWI_only,
    img_f,                      \* sorted file names of <folder_dir>/input
    mask_f,                     \* sorted file names of <folder_dir>/GT
    maskPixels,                 \* greyscale pixels of each file of GT
    mi,                         \* files of img_f already visited
    fname_dwi,                  \* paths collected by get_matched_fpath
    li,                         \* paths of fname_dwi already visited
    xs,
    ys,
    opened,                     \* files load_images has opened, in order
    \* stroke_unet.py, shuffle_ds
    spc,                        \* position in shuffle_ds
    x_all,                      \* the arrays handed to shuffle_ds, first axis as a sequence
    y_all,
    shuffle_idx,
    x_train,                    \* the names x and y inside shuffle_ds, then its result
    y_train,
    \* cifar10_vgg16_pretrained.py, fine-tuning loop
    tpc,                        \* position in the script
    fine_tuning_set,            \* fine_tuning as the hyper-parameter block sets it
    fine_tuning,
    base_model,                 \* trainable attribute of the base model and of its layers
    layer_k,                    \* layers of the slice the for loop has visited
    bodyRuns,                   \* times the body of the while loop has been entered
    compiled,                   \* learning rate pretrained2 was last compiled with
    history_fine                \* results of the fine-tuning fit, in order

locals == <<noise, generated_images, real_output, fake_output, gen_loss, disc_loss,
            gradients_of_generator, gradients_of_discriminator>>
nets == <<generator, discriminator, generator_optimizer, discriminator_optimizer>>
counters == <<tapeCalls, forwardCalls, nTrainStep>>
outputs == <<imageFiles, visLog, checkpoints, saveLog, epochEnd, restored, gifFrames>>
loopvars == <<epoch, batchIdx, image_batch, gen_losses, disc_losses>>
params == <<numImages, epochs, seed>>
ganVars == <<pc, failedAt, params, loopvars, nets, locals, counters, outputs>>
matchVars == <<mpc, is_DWI_only, img_f, mask_f, maskPixels, mi, fname_dwi, li, xs, ys,
               opened>>
shuffleVars == <<spc, x_all, y_all, shuffle_idx, x_train, y_train>>
tuneVars == <<tpc, fine_tuning_set, fine_tuning, base_model, layer_k, bodyRuns, compiled,
              history_fine>>
vars == <<ganVars, matchVars, shuffleVars, tuneVars>>
\* what the GAN script leaves alone, and what the segmentation script leaves alone
notGan == <<matchVars, shuffleVars, tuneVars>>
notMatch == <<ganVars, shuffleVars, tuneVars>>
notShuffle == <<ganVars, matchVars, tuneVars>>
notTune == <<ganVars, matchVars, shuffleVars>>

(***************************************************************************)
(* train_dataset = from_tensor_slices(train_images).shuffle(..).batch(..)   *)
(***************************************************************************)
NumBatches(n) == (n + BATCH_SIZE - 1) \div BATCH_SIZE

BatchLen(i, n) == IF (i + 1) * BATCH_SIZE <= n THEN BATCH_SIZE ELSE n - i * BATCH_SIZE

DatasetSizes ==
    {k * BATCH_SIZE + r : k \in 0..MaxFullBatches, r \in {0, BUFFER_SIZE % BATCH_SIZE}}

(***************************************************************************)
(* tf.random.normal(shape): a fresh draw of the given shape                 *)
(***************************************************************************)
RandomNormal(rows, cols) == {[shape |-> <<rows, cols>>, draw |-> d] : d \in 1..NumDraws}

SeedDraws == RandomNormal(num_examples_to_generate, noise_dim)

\* variant: the latent batch sized after the real batch
NoiseDrawsLikeBatch(images) == RandomNormal(images.n, noise_dim)

\* noise = tf.random.normal([BATCH_SIZE, noise_dim]), whatever images holds
NoiseDraws(images) == RandomNormal(BATCH_SIZE, noise_dim)

(***************************************************************************)
(* Networks, losses, gradients                                              *)
(***************************************************************************)
\* generator(z, training=True): one sample per latent row; batch normalisation
\* updates its moving statistics in training mode.
GeneratorCall(g, z) == [n |-> z.shape[1], latent |-> z, gen |-> g.trainable]

\* discriminator(x, training=True): one score per sample
DiscriminatorCall(d, x, kind) == [n |-> x.n, of |-> kind, input |-> x, disc |-> d.trainable]

cross_entropy(label, logits) == [label |-> label, logits |-> logits]

generator_loss(fake) == [name |-> "gen_loss", terms |-> <<cross_entropy(1, fake)>>]

\* variant: the two labels exchanged
discriminator_loss_swapped(real, fake) ==
    [name |-> "disc_loss", terms |-> <<cross_entropy(0, real), cross_entropy(1, fake)>>]

discriminator_loss(real, fake) ==
    [name |-> "disc_loss", terms |-> <<cross_entropy(1, real), cross_entropy(0, fake)>>]

\* tape.gradient(loss, sources)
Gradient(loss, sources) == [loss |-> loss, sources |-> sources]

\* optimizer.apply_gradients(zip(grads, net.trainable_variables)): the variables
\* of net move by one update computed from grads
ApplyTo(net, grads) ==
    [net EXCEPT !.trainable = @ + 1, !.applied = <<grads.loss.name, grads.sources>>]

OptimizerStep(opt) == [opt EXCEPT !.iterations = @ + 1]

Snapshot == [generator |-> generator, discriminator |-> discriminator,
             generator_optimizer |-> generator_optimizer,
             discriminator_optimizer |-> discriminator_optimizer]


RECURSIVE SortedSeq(_)
\* sorted(filenames): ascending order of the zero-padded epoch numbers
SortedSeq(S) ==
    IF S = {} THEN <<>>
    ELSE LET m == CHOOSE x \in S : \A y \in S : x <= y
         IN <<m>> \o SortedSeq(S \ {m})

(***************************************************************************)
(* State at line 247, when train(train_dataset, EPOCHS) is called           *)
(***************************************************************************)
TrainStepPcs == {"ts_noise", "ts_gen", "ts_disc_real", "ts_disc_fake", "ts_loss",
                 "ts_grad_gen", "ts_grad_disc", "ts_apply_gen", "ts_apply_disc",
                 "ts_return"}

TrainPcs == TrainStepPcs \cup {"train", "batches", "vis", "save", "report", "final_vis"}

ScriptPcs == TrainPcs \cup {"restore", "gif"}

GanRest ==
    /\ failedAt = None
    /\ epoch = 0
    /\ batchIdx = 0
    /\ image_batch = None
    /\ gen_losses = <<>>
    /\ disc_losses = <<>>
    /\ generator = [trainable |-> 0, bn |-> 0, applied |-> <<None, None>>]
    /\ discriminator = [trainable |-> 0, applied |-> <<None, None>>]
    /\ generator_optimizer = [iterations |-> 0]
    /\ discriminator_optimizer = [iterations |-> 0]
    /\ noise = None
    /\ generated_images = None
    /\ real_output = None
    /\ fake_output = None
    /\ gen_loss = None
    /\ disc_loss = None
    /\ gradients_of_generator = None
    /\ gradients_of_discriminator = None
    /\ tapeCalls = [gen_tape |-> 0, disc_tape |-> 0]
    /\ forwardCalls = [generator |-> 0, discriminator |-> 0]
    /\ nTrainStep = 0
    /\ imageFiles = <<>>
    /\ visLog = <<>>
    /\ checkpoints = <<>>
    /\ saveLog = <<>>
    /\ epochEnd = None
    /\ restored = FALSE
    /\ gifFrames = <<>>

GanInit ==
    /\ pc = "train"
    /\ numImages \in DatasetSizes
    /\ epochs \in (0..MaxEpochs) \cup {EPOCHS}
    /\ seed \in SeedDraws
    /\ GanRest

(***************************************************************************)
(* train_step(images), lines 176-196                                        *)
(***************************************************************************)
TrainStepNoise ==
    /\ pc = "ts_noise"
    /\ noise' \in NoiseDraws(image_batch)
    /\ pc' = "ts_gen"
    /\ UNCHANGED <<failedAt, params, loopvars, nets, generated_images, real_output,
                   fake_output, gen_loss, disc_loss, gradients_of_generator,
                   gradients_of_discriminator, counters, outputs>>
    /\ UNCHANGED notGan

TrainStepGenerate ==
    /\ pc = "ts_gen"
    /\ generated_images' = GeneratorCall(generator, noise)
    /\ generator' = [generator EXCEPT !.bn = @ + 1]
    /\ forwardCalls' = [forwardCalls EXCEPT !.generator = @ + 1]
    /\ pc' = "ts_disc_real"
    /\ UNCHANGED <<failedAt, params, loopvars, discriminator, generator_optimizer,
                   discriminator_optimizer, noise, real_output, fake_output, gen_loss,
                   disc_loss, gradients_of_generator, gradients_of_discriminator,
                   tapeCalls, nTrainStep, outputs>>
    /\ UNCHANGED notGan

TrainStepScoreReal ==
    /\ pc = "ts_disc_real"
    /\ real_output' = DiscriminatorCall(discriminator, image_batch, "real")
    /\ forwardCalls' = [forwardCalls EXCEPT !.discriminator = @ + 1]
    /\ pc' = "ts_disc_fake"
    /\ UNCHANGED <<failedAt, params, loopvars, nets, noise, generated_images,
                   fake_output, gen_loss, disc_loss, gradients_of_generator,
                   gradients_of_discriminator, tapeCalls, nTrainStep, outputs>>
    /\ UNCHANGED notGan

TrainStepScoreFake ==
    /\ pc = "ts_disc_fake"
    /\ fake_output' = DiscriminatorCall(discriminator, generated_images, "fake")
    /\ forwardCalls' = [forwardCalls EXCEPT !.discriminator = @ + 1]
    /\ pc' = "ts_loss"
    /\ UNCHANGED <<failedAt, params, loopvars, nets, noise, generated_images,
                   real_output, gen_loss, disc_loss, gradients_of_generator,
                   gradients_of_discriminator, tapeCalls, nTrainStep, outputs>>
    /\ UNCHANGED notGan

TrainStepLoss ==
    /\ pc = "ts_loss"
    /\ gen_loss' = generator_loss(fake_output)
    /\ disc_loss' = discriminator_loss(real_output, fake_output)
    /\ pc' = "ts_grad_gen"
    /\ UNCHANGED <<failedAt, params, loopvars, nets, noise, generated_images,
                   real_output, fake_output, gradients_of_generator,
                   gradients_of_discriminator, counters, outputs>>
    /\ UNCHANGED notGan

TrainStepGradGen ==
    /\ pc = "ts_grad_gen"
    /\ gradients_of_generator' = Gradient(gen_loss, "generator")
    /\ tapeCalls' = [tapeCalls EXCEPT !.gen_tape = @ + 1]
    /\ pc' = "ts_grad_disc"
    /\ UNCHANGED <<failedAt, params, loopvars, nets, noise, generated_images,
                   real_output, fake_output, gen_loss, disc_loss,
                   gradients_of_discriminator, forwardCalls, nTrainStep, outputs>>
    /\ UNCHANGED notGan

TrainStepGradDisc ==
    /\ pc = "ts_grad_disc"
    /\ gradients_of_discriminator' = Gradient(disc_loss, "discriminator")
    /\ tapeCalls' = [tapeCalls EXCEPT !.disc_tape = @ + 1]
    /\ pc' = "ts_apply_gen"
    /\ UNCHANGED <<failedAt, params, loopvars, nets, noise, generated_images,
                   real_output, fake_output, gen_loss, disc_loss,
                   gradients_of_generator, forwardCalls, nTrainStep, outputs>>
    /\ UNCHANGED notGan

\* variant: the generator update is left out
TrainStepApplyGenSkipped ==
    /\ pc = "ts_apply_gen"
    /\ pc' = "ts_apply_disc"
    /\ UNCHANGED <<failedAt, params, loopvars, nets, locals, counters, outputs>>
    /\ UNCHANGED notGan

\* variant: alternating updates, the discriminator gradient recomputed after
\* the generator has been updated
TrainStepApplyGenThenRescore ==
    /\ pc = "ts_apply_gen"
    /\ generator' = [ApplyTo(generator, gradients_of_generator) EXCEPT !.bn = @ + 1]
    /\ generator_optimizer' = OptimizerStep(generator_optimizer)
    /\ generated_images' = GeneratorCall(ApplyTo(generator, gradients_of_generator), noise)
    /\ fake_output' = DiscriminatorCall(discriminator, generated_images', "fake")
    /\ disc_loss' = discriminator_loss(real_output, fake_output')
    /\ gradients_of_discriminator' = Gradient(disc_loss', "discriminator")
    /\ pc' = "ts_apply_disc"
    /\ UNCHANGED <<failedAt, params, loopvars, discriminator, discriminator_optimizer,
                   noise, real_output, gen_loss, gradients_of_generator, counters,
                   outputs>>
    /\ UNCHANGED notGan

TrainStepApplyGen ==
    /\ pc = "ts_apply_gen"
    /\ generator' = ApplyTo(generator, gradients_of_generator)
    /\ generator_optimizer' = OptimizerStep(generator_optimizer)
    /\ pc' = "ts_apply_disc"
    /\ UNCHANGED <<failedAt, params, loopvars, discriminator, discriminator_optimizer,
                   locals, counters, outputs>>
    /\ UNCHANGED notGan

\* variant: the generator gradients zipped with the discriminator variables
TrainStepApplyDiscCrossed ==
    /\ pc = "ts_apply_disc"
    /\ discriminator' = ApplyTo(discriminator, gradients_of_generator)
    /\ discriminator_optimizer' = OptimizerStep(discriminator_optimizer)
    /\ pc' = "ts_return"
    /\ UNCHANGED <<failedAt, params, loopvars, generator, generator_optimizer,
                   locals, counters, outputs>>
    /\ UNCHANGED notGan

TrainStepApplyDisc ==
    /\ pc = "ts_apply_disc"
    /\ discriminator' = ApplyTo(discriminator, gradients_of_discriminator)
    /\ discriminator_optimizer' = OptimizerStep(discriminator_optimizer)
    /\ pc' = "ts_return"
    /\ UNCHANGED <<failedAt, params, loopvars, generator, generator_optimizer,
                   locals, counters, outputs>>
    /\ UNCHANGED notGan

\* the scalar a loss of train_step number step evaluates to
LossValue(loss, step) == [name |-> loss.name, step |-> step]

\* return gen_loss, disc_loss; the caller appends them (lines 205-207)
TrainStepReturn ==
    /\ pc = "ts_return"
    /\ gen_losses' = Append(gen_losses, LossValue(gen_loss, nTrainStep + 1))
    /\ disc_losses' = Append(disc_losses, LossValue(disc_loss, nTrainStep + 1))
    /\ nTrainStep' = nTrainStep + 1
    /\ batchIdx' = batchIdx + 1
    /\ image_batch' = None
    /\ noise' = None
    /\ generated_images' = None
    /\ real_output' = None
    /\ fake_output' = None
    /\ gen_loss' = None
    /\ disc_loss' = None
    /\ gradients_of_generator' = None
    /\ gradients_of_discriminator' = None
    /\ pc' = "batches"
    /\ UNCHANGED <<failedAt, params, epoch, nets, tapeCalls, forwardCalls, outputs>>
    /\ UNCHANGED notGan


(***************************************************************************)
(* generate_and_save_images(model, epoch, test_input), lines 228-240        *)
(***************************************************************************)
GenerateAndSaveImages(model, ep, test_input) ==
    LET picture == [test_input |-> test_input, gen |-> model.trainable,
                    n |-> test_input.shape[1]]
    IN /\ imageFiles' = [e \in DOMAIN imageFiles \cup {ep} |->
                            IF e = ep THEN picture ELSE imageFiles[e]]
       /\ visLog' = Append(visLog, [epoch |-> ep, test_input |-> test_input])

\* variant: a new latent batch for each visualisation
VisInputRedrawn ==
    [shape |-> <<num_examples_to_generate, noise_dim>>, draw |-> (seed.draw % NumDraws) + 1]

\* the latent batch train hands to generate_and_save_images (lines 211, 224)
VisInput == seed

(***************************************************************************)
(* train(dataset, epochs), lines 199-224                                    *)
(***************************************************************************)

\* variant: the dataset is a one-shot iterator that is not rewound
TrainEpochStartNoRewind ==
    /\ pc = "train"
    /\ epoch < epochs
    /\ gen_losses' = <<>>
    /\ disc_losses' = <<>>
    /\ pc' = "batches"
    /\ UNCHANGED <<failedAt, params, epoch, batchIdx, image_batch, nets, locals,
                   counters, outputs>>
    /\ UNCHANGED notGan

\* for epoch in range(epochs): next iteration
TrainEpochStart ==
    /\ pc = "train"
    /\ epoch < epochs
    /\ batchIdx' = 0
    /\ gen_losses' = <<>>
    /\ disc_losses' = <<>>
    /\ pc' = "batches"
    /\ UNCHANGED <<failedAt, params, epoch, image_batch, nets, locals, counters, outputs>>
    /\ UNCHANGED notGan

\* for epoch in range(epochs): exhausted
TrainEpochsDone ==
    /\ pc = "train"
    /\ epoch >= epochs
    /\ pc' = "final_vis"
    /\ UNCHANGED <<failedAt, params, loopvars, nets, locals, counters, outputs>>
    /\ UNCHANGED notGan

\* for image_batch in dataset: next batch
\* variant: checkpoint.save indented into the batch loop
TrainBatchNextSaving ==
    /\ pc = "batches"
    /\ batchIdx < NumBatches(numImages)
    /\ image_batch' = [n |-> BatchLen(batchIdx, numImages)]
    /\ IF (epoch + 1) % SaveEvery = 0
       THEN /\ checkpoints' = Append(checkpoints, Snapshot)
            /\ saveLog' = Append(saveLog, epoch + 1)
       ELSE UNCHANGED <<checkpoints, saveLog>>
    /\ pc' = "ts_noise"
    /\ UNCHANGED <<failedAt, params, epoch, batchIdx, gen_losses, disc_losses, nets,
                   locals, counters, imageFiles, visLog, epochEnd, restored, gifFrames>>
    /\ UNCHANGED notGan

TrainBatchNext ==
    /\ pc = "batches"
    /\ batchIdx < NumBatches(numImages)
    /\ image_batch' = [n |-> BatchLen(batchIdx, numImages)]
    /\ pc' = "ts_noise"
    /\ UNCHANGED <<failedAt, params, epoch, batchIdx, gen_losses, disc_losses, nets,
                   locals, counters, outputs>>
    /\ UNCHANGED notGan

\* for image_batch in dataset: exhausted
TrainBatchesDone ==
    /\ pc = "batches"
    /\ batchIdx >= NumBatches(numImages)
    /\ pc' = "vis"
    /\ UNCHANGED <<failedAt, params, loopvars, nets, locals, counters, outputs>>
    /\ UNCHANGED notGan

\* variant: the file named after the 0-indexed loop variable
TrainVisualizeZeroIndexed ==
    /\ pc = "vis"
    /\ GenerateAndSaveImages(generator, epoch, VisInput)
    /\ pc' = "save"
    /\ UNCHANGED <<failedAt, params, loopvars, nets, locals, counters, checkpoints,
                   saveLog, epochEnd, restored, gifFrames>>
    /\ UNCHANGED notGan

TrainVisualize ==
    /\ pc = "vis"
    /\ GenerateAndSaveImages(generator, epoch + 1, VisInput)
    /\ pc' = "save"
    /\ UNCHANGED <<failedAt, params, loopvars, nets, locals, counters, checkpoints,
                   saveLog, epochEnd, restored, gifFrames>>
    /\ UNCHANGED notGan

\* variant: the test on the 0-indexed loop variable
IsSaveEpochZeroIndexed(e) == e % SaveEvery = 0

\* if (epoch + 1) % 15 == 0
IsSaveEpoch(e) == (e + 1) % SaveEvery = 0

\* variant: a checkpoint at the end of every epoch
TrainCheckpointEveryEpoch ==
    /\ pc = "save"
    /\ checkpoints' = Append(checkpoints, Snapshot)
    /\ saveLog' = Append(saveLog, epoch + 1)
    /\ pc' = "report"
    /\ UNCHANGED <<failedAt, params, loopvars, nets, locals, counters, imageFiles,
                   visLog, epochEnd, restored, gifFrames>>
    /\ UNCHANGED notGan

TrainCheckpoint ==
    /\ pc = "save"
    /\ IF IsSaveEpoch(epoch)
       THEN /\ checkpoints' = Append(checkpoints, Snapshot)
            /\ saveLog' = Append(saveLog, epoch + 1)
       ELSE UNCHANGED <<checkpoints, saveLog>>
    /\ pc' = "report"
    /\ UNCHANGED <<failedAt, params, loopvars, nets, locals, counters, imageFiles,
                   visLog, epochEnd, restored, gifFrames>>
    /\ UNCHANGED notGan

\* sum(gen_losses) / len(gen_losses): ZeroDivisionError on an empty dataset
TrainReport ==
    /\ pc = "report"
    /\ IF Len(gen_losses) = 0
       THEN /\ pc' = "crashed"
            /\ failedAt' = pc
            /\ UNCHANGED <<epoch, epochEnd>>
       ELSE /\ pc' = "train"
            /\ epoch' = epoch + 1
            /\ epochEnd' = Snapshot
            /\ UNCHANGED failedAt
    /\ UNCHANGED <<params, batchIdx, image_batch, gen_losses, disc_losses, nets, locals,
                   counters, imageFiles, visLog, checkpoints, saveLog, restored,
                   gifFrames>>
    /\ UNCHANGED notGan

TrainFinalVisualize ==
    /\ pc = "final_vis"
    /\ GenerateAndSaveImages(generator, epochs, VisInput)
    /\ pc' = "restore"
    /\ UNCHANGED <<failedAt, params, loopvars, nets, locals, counters, checkpoints,
                   saveLog, epochEnd, restored, gifFrames>>
    /\ UNCHANGED notGan

(***************************************************************************)
(* Module level after train, lines 249-269                                  *)
(***************************************************************************)
\* variant: the oldest checkpoint is restored
RestoreOldest ==
    /\ pc = "restore"
    /\ IF Len(checkpoints) = 0
       THEN UNCHANGED nets
       ELSE LET c == checkpoints[1]
            IN /\ generator' = c.generator
               /\ discriminator' = c.discriminator
               /\ generator_optimizer' = c.generator_optimizer
               /\ discriminator_optimizer' = c.discriminator_optimizer
    /\ restored' = TRUE
    /\ pc' = "gif"
    /\ UNCHANGED <<failedAt, params, loopvars, locals, counters, imageFiles, visLog,
                   checkpoints, saveLog, epochEnd, gifFrames>>
    /\ UNCHANGED notGan

\* checkpoint.restore(tf.train.latest_checkpoint(checkpoint_dir))
Restore ==
    /\ pc = "restore"
    /\ IF Len(checkpoints) = 0
       THEN UNCHANGED nets
       ELSE LET c == checkpoints[Len(checkpoints)]
            IN /\ generator' = c.generator
               /\ discriminator' = c.discriminator
               /\ generator_optimizer' = c.generator_optimizer
               /\ discriminator_optimizer' = c.discriminator_optimizer
    /\ restored' = TRUE
    /\ pc' = "gif"
    /\ UNCHANGED <<failedAt, params, loopvars, locals, counters, imageFiles, visLog,
                   checkpoints, saveLog, epochEnd, gifFrames>>
    /\ UNCHANGED notGan

\* every image*.png in sorted order, the last one twice
AssembleGif ==
    /\ pc = "gif"
    /\ LET filenames == SortedSeq(DOMAIN imageFiles)
       IN gifFrames' = filenames \o <<filenames[Len(filenames)]>>
    /\ pc' = "done"
    /\ UNCHANGED <<failedAt, params, loopvars, nets, locals, counters, imageFiles,
                   visLog, checkpoints, saveLog, epochEnd, restored>>
    /\ UNCHANGED notGan

(***************************************************************************)
(* stroke_unet.py: file names are sequences of characters                   *)
(***************************************************************************)
MaskLen == 2

DWI == <<"D", "W", "I">>
ADC == <<"A", "D", "C">>
DotDcm == <<".", "d", "c", "m">>
DotPng == <<".", "p", "n", "g">>
DotTif == <<".", "t", "i", "f">>

\* the files the input folder may hold
InputPool ==
    { <<"a">> \o DWI \o DotDcm, <<"a">> \o ADC \o DotDcm,
      <<"b">> \o DWI \o DotDcm,
      <<"c">> \o DWI \o DotTif, <<"c">> \o ADC \o DotDcm,
      <<"d", ".">> \o DWI }

\* the files the GT folder may hold
MaskPool == { <<"a">> \o DWI \o DotPng, <<"b">> \o DWI \o DotPng, <<"c">> \o DWI \o DotPng }

GreyLevels == {0, 255}

\* code points of the characters in use
Ord == [c \in {".", "A", "C", "D", "I", "W", "a", "b", "c", "d", "f", "g", "i", "m",
               "n", "p", "t"} |->
          CASE c = "." -> 46 [] c = "A" -> 65 [] c = "C" -> 67 [] c = "D" -> 68
            [] c = "I" -> 73 [] c = "W" -> 87 [] c = "a" -> 97 [] c = "b" -> 98
            [] c = "c" -> 99 [] c = "d" -> 100 [] c = "f" -> 102 [] c = "g" -> 103
            [] c = "i" -> 105 [] c = "m" -> 109 [] c = "n" -> 110 [] c = "p" -> 112
            [] c = "t" -> 116]

\* s < t for Python strings
RECURSIVE StrLess(_, _)
StrLess(s, t) ==
    IF t = <<>> THEN FALSE
    ELSE IF s = <<>> THEN TRUE
    ELSE IF Head(s) = Head(t) THEN StrLess(Tail(s), Tail(t))
    ELSE Ord[Head(s)] < Ord[Head(t)]

\* files.sort() on the names os.walk lists
RECURSIVE SortNames(_)
SortNames(S) ==
    IF S = {} THEN <<>>
    ELSE LET m == CHOOSE x \in S : \A y \in S \ {x} : StrLess(x, y)
         IN <<m>> \o SortNames(S \ {m})

\* positions at which sub occurs in s
Occurrences(s, sub) ==
    {k \in 1..(Len(s) - Len(sub) + 1) : SubSeq(s, k, k + Len(sub) - 1) = sub}

\* sub in s
Contains(s, sub) == Occurrences(s, sub) # {}

\* s.index(sub), 1-based; only defined when sub occurs
Index(s, sub) == CHOOSE k \in Occurrences(s, sub) : \A j \in Occurrences(s, sub) : k <= j

\* x in list
InList(x, list) == \E k \in 1..Len(list) : list[k] = x

\* os.path.splitext: the extension starts at the last dot, unless only dots
\* precede it
SplitExt(name) ==
    LET dots == {k \in 1..Len(name) : name[k] = "."}
    IN IF dots = {} THEN <<name, <<>>>>
       ELSE LET dot == CHOOSE k \in dots : \A j \in dots : j <= k
            IN IF \E j \in 1..(dot - 1) : name[j] # "."
               THEN <<SubSeq(name, 1, dot - 1), SubSeq(name, dot, Len(name))>>
               ELSE <<name, <<>>>>

\* f[:f.index('DWI')] + 'ADC' + f[f.index('DWI') + 3:]
SwapModality(f) ==
    SubSeq(f, 1, Index(f, DWI) - 1) \o ADC \o SubSeq(f, Index(f, DWI) + 3, Len(f))

\* os.path.join(img_dir, i)
InputPath(i) == [folder |-> "input", name |-> i]

(***************************************************************************)
(* get_matched_fpath(is_DWI_only, folder_dir), lines 54-77                  *)
(***************************************************************************)
\* variant: the mask test left out of the dual-modality branch
MatchesNoMaskTest(i, dwiOnly, imgs, masks) ==
    LET f_dwi == SplitExt(i)[1]
        f_adc == SwapModality(f_dwi)
    IN \/ dwiOnly /\ InList(f_dwi \o DotPng, masks)
       \/ ~dwiOnly /\ InList(f_adc \o DotDcm, imgs)

\* the test of lines 70 and 73 on a name whose stem contains 'DWI'
Matches(i, dwiOnly, imgs, masks) ==
    LET f_dwi == SplitExt(i)[1]
        f_adc == SwapModality(f_dwi)
    IN \/ dwiOnly /\ InList(f_dwi \o DotPng, masks)
       \/ ~dwiOnly /\ InList(f_adc \o DotDcm, imgs) /\ InList(f_dwi \o DotPng, masks)

\* one iteration of `for i in img_f`
MatchFile ==
    /\ mpc = "match"
    /\ mi < Len(img_f)
    /\ LET i == img_f[mi + 1]
       IN IF ~Contains(i, DWI)
          THEN /\ mi' = mi + 1
               /\ UNCHANGED <<mpc, fname_dwi>>
          ELSE IF ~Contains(SplitExt(i)[1], DWI)
          THEN \* f_dwi.index('DWI') raises ValueError
               /\ mpc' = "match_error"
               /\ UNCHANGED <<mi, fname_dwi>>
          ELSE /\ mi' = mi + 1
               /\ fname_dwi' = IF Matches(i, is_DWI_only, img_f, mask_f)
                               THEN Append(fname_dwi, InputPath(i))
                               ELSE fname_dwi
               /\ UNCHANGED mpc
    /\ UNCHANGED <<is_DWI_only, img_f, mask_f, maskPixels, li, xs, ys, opened>>
    /\ UNCHANGED notMatch

\* return fname_dwi; the script hands it to load_images (line 224)
MatchReturn ==
    /\ mpc = "match"
    /\ mi = Len(img_f)
    /\ mpc' = "load"
    /\ UNCHANGED <<is_DWI_only, img_f, mask_f, maskPixels, mi, fname_dwi, li, xs, ys,
                   opened>>
    /\ UNCHANGED notMatch

(***************************************************************************)
(* load_images(is_DWI_only, fname_dwi, rndcrop_size), lines 80-139          *)
(***************************************************************************)
\* y.point(lambda p: p > 0.5) on a mask that already has the target size
Threshold(pixels) == [k \in 1..Len(pixels) |-> IF 2 * pixels[k] > 1 THEN 1 ELSE 0]

\* variant: y.min() in place of y.max()
MinOf(pixels) == CHOOSE v \in {pixels[k] : k \in 1..Len(pixels)} :
                    \A k \in 1..Len(pixels) : v <= pixels[k]

\* y.max()
MaxOf(pixels) == CHOOSE v \in {pixels[k] : k \in 1..Len(pixels)} :
                    \A k \in 1..Len(pixels) : pixels[k] <= v

\* GT/<stem of the base name>.png
MaskName(f) == SplitExt(f.name)[1] \o DotPng

\* the base name with its first 'DWI' replaced by 'ADC'
AdcName(f) == SwapModality(f.name)

\* one iteration of `for f in fname_dwi`
LoadFile ==
    /\ mpc = "load"
    /\ li < Len(fname_dwi)
    /\ LET f == fname_dwi[li + 1]
           f_mask == [folder |-> "GT", name |-> MaskName(f)]
           f_adc == [folder |-> "input", name |-> AdcName(f)]
       IN IF ~InList(f_mask.name, mask_f)
          THEN \* Image.open raises FileNotFoundError
               /\ mpc' = "load_error"
               /\ opened' = Append(opened, f_mask)
               /\ UNCHANGED <<li, xs, ys>>
          ELSE LET y == Threshold(maskPixels[f_mask.name])
               IN IF MaxOf(y) = 0
                  THEN /\ li' = li + 1
                       /\ opened' = Append(opened, f_mask)
                       /\ UNCHANGED <<mpc, xs, ys>>
                  ELSE IF is_DWI_only
                  THEN /\ li' = li + 1
                       /\ opened' = opened \o <<f_mask, f>>
                       /\ xs' = Append(xs, <<f>>)
                       /\ ys' = Append(ys, [path |-> f, pixels |-> y])
                       /\ UNCHANGED mpc
                  ELSE IF ~InList(f_adc.name, img_f)
                  THEN \* dcmread raises FileNotFoundError
                       /\ mpc' = "load_error"
                       /\ opened' = opened \o <<f_mask, f_adc>>
                       /\ UNCHANGED <<li, xs, ys>>
                  ELSE /\ li' = li + 1
                       /\ opened' = opened \o <<f_mask, f_adc, f>>
                       /\ xs' = Append(xs, <<f_adc, f>>)
                       /\ ys' = Append(ys, [path |-> f, pixels |-> y])
                       /\ UNCHANGED mpc
    /\ UNCHANGED <<is_DWI_only, img_f, mask_f, maskPixels, mi, fname_dwi>>
    /\ UNCHANGED notMatch

\* return xs, ys
LoadReturn ==
    /\ mpc = "load"
    /\ li = Len(fname_dwi)
    /\ mpc' = "loaded"
    /\ UNCHANGED <<is_DWI_only, img_f, mask_f, maskPixels, mi, fname_dwi, li, xs, ys,
                   opened>>
    /\ UNCHANGED notMatch

\* the folders as get_matched_fpath finds them, after mask_f.sort(), img_f.sort()
MatchStart ==
    /\ mpc = "match"
    /\ is_DWI_only \in BOOLEAN
    /\ \E S \in SUBSET InputPool : img_f = SortNames(S)
    /\ \E S \in SUBSET MaskPool :
          /\ mask_f = SortNames(S)
          /\ maskPixels \in [S -> [1..MaskLen -> GreyLevels]]
    /\ mi = 0
    /\ fname_dwi = <<>>
    /\ li = 0
    /\ xs = <<>>
    /\ ys = <<>>
    /\ opened = <<>>

\* the segmentation script not run
MatchIdle ==
    /\ mpc = "idle"
    /\ is_DWI_only = FALSE
    /\ img_f = <<>>
    /\ mask_f = <<>>
    /\ maskPixels = <<>>
    /\ mi = 0
    /\ fname_dwi = <<>>
    /\ li = 0
    /\ xs = <<>>
    /\ ys = <<>>
    /\ opened = <<>>

\* the GAN script not run
GanIdle ==
    /\ pc = "idle"
    /\ numImages = 0
    /\ epochs = 0
    /\ seed = None
    /\ GanRest

(***************************************************************************)
(* stroke_unet.py: shuffle_ds                                               *)
(***************************************************************************)
MaxSamples == 3

\* contents a sample or a mask can have
SampleValues == {"p", "q"}

\* np.arange(n)
Arange(n) == [k \in 1..n |-> k - 1]

\* the orders np.random.shuffle can leave the index array in
Shuffles(idx) ==
    {p \in [1..Len(idx) -> {idx[k] : k \in 1..Len(idx)}] :
        \A i, j \in 1..Len(idx) : i # j => p[i] # p[j]}

\* a[idx]: integer-array indexing along the first axis (indices count from 0)
Take(a, idx) == [k \in 1..Len(idx) |-> a[idx[k] + 1]]

\* two arrays of the same length, as load_images returns them
ShuffleStart ==
    /\ spc = "arange"
    /\ \E n \in 0..MaxSamples :
          /\ x_all \in [1..n -> SampleValues]
          /\ y_all \in [1..n -> SampleValues]
    /\ shuffle_idx = None
    /\ x_train = x_all
    /\ y_train = y_all

\* shuffle_ds not called
ShuffleIdle ==
    /\ spc = "idle"
    /\ x_all = <<>>
    /\ y_all = <<>>
    /\ shuffle_idx = None
    /\ x_train = <<>>
    /\ y_train = <<>>

\* shuffle_idx = np.arange(x.shape[0])
ShuffleArange ==
    /\ spc = "arange"
    /\ shuffle_idx' = Arange(Len(x_train))
    /\ spc' = "shuffle"
    /\ UNCHANGED <<x_all, y_all, x_train, y_train>>
    /\ UNCHANGED notShuffle

\* np.random.shuffle(shuffle_idx)
ShuffleIndex ==
    /\ spc = "shuffle"
    /\ shuffle_idx' \in Shuffles(shuffle_idx)
    /\ spc' = "take_x"
    /\ UNCHANGED <<x_all, y_all, x_train, y_train>>
    /\ UNCHANGED notShuffle

\* x = x[shuffle_idx]
ShuffleTakeX ==
    /\ spc = "take_x"
    /\ x_train' = Take(x_train, shuffle_idx)
    /\ spc' = "take_y"
    /\ UNCHANGED <<x_all, y_all, shuffle_idx, y_train>>
    /\ UNCHANGED notShuffle

\* variant: y is shuffled on its own
ShuffleTakeYReshuffled ==
    /\ spc = "take_y"
    /\ \E p \in Shuffles(shuffle_idx) : y_train' = Take(y_train, p)
    /\ spc' = "return"
    /\ UNCHANGED <<x_all, y_all, shuffle_idx, x_train>>
    /\ UNCHANGED notShuffle

\* y = y[shuffle_idx]
ShuffleTakeY ==
    /\ spc = "take_y"
    /\ y_train' = Take(y_train, shuffle_idx)
    /\ spc' = "return"
    /\ UNCHANGED <<x_all, y_all, shuffle_idx, x_train>>
    /\ UNCHANGED notShuffle

\* return x, y
ShuffleReturn ==
    /\ spc = "return"
    /\ spc' = "shuffled"
    /\ UNCHANGED <<x_all, y_all, shuffle_idx, x_train, y_train>>
    /\ UNCHANGED notShuffle

(***************************************************************************)
(* cifar10_vgg16_pretrained.py: the fine-tuning loop, lines 119-144         *)
(***************************************************************************)
epochs_ex == 10
epochs_tn == 20
fine_tune_at == 16
MaxLayers == 18

\* variant: base_model.layers[fine_tune_at:]
SliceFrom(n, k) == [j \in 1..(IF n > k THEN n - k ELSE 0) |-> k + j - 1]

\* indices (from 0) of the entries of base_model.layers[:k], n layers in all
SliceTo(n, k) == [j \in 1..(IF n < k THEN n ELSE k) |-> j - 1]

\* the trainable setter of a model: the flag of the model and of every layer
SetTrainable(model, value) ==
    [trainable |-> value, layers |-> [j \in 1..Len(model.layers) |-> value]]

\* line 119: the base model frozen (line 107), pretrained2 compiled with
\* learning_rate_ex and fitted for epochs_ex epochs
TuneStart ==
    /\ tpc = "while"
    /\ fine_tuning_set \in BOOLEAN
    /\ fine_tuning = fine_tuning_set
    /\ \E n \in 0..MaxLayers :
          base_model = SetTrainable([trainable |-> TRUE, layers |-> [j \in 1..n |-> TRUE]],
                                    FALSE)
    /\ layer_k = 0
    /\ bodyRuns = 0
    /\ compiled = "learning_rate_ex"
    /\ history_fine = <<>>

\* the classification script not run
TuneIdle ==
    /\ tpc = "idle"
    /\ fine_tuning_set = FALSE
    /\ fine_tuning = FALSE
    /\ base_model = [trainable |-> FALSE, layers |-> <<>>]
    /\ layer_k = 0
    /\ bodyRuns = 0
    /\ compiled = None
    /\ history_fine = <<>>

\* while fine_tuning: the test holds
TuneLoopEnter ==
    /\ tpc = "while"
    /\ fine_tuning
    /\ bodyRuns' = bodyRuns + 1
    /\ tpc' = "unfreeze"
    /\ UNCHANGED <<fine_tuning_set, fine_tuning, base_model, layer_k, compiled,
                   history_fine>>
    /\ UNCHANGED notTune

\* while fine_tuning: the test fails
TuneLoopExit ==
    /\ tpc = "while"
    /\ ~fine_tuning
    /\ tpc' = "evaluate"
    /\ UNCHANGED <<fine_tuning_set, fine_tuning, base_model, layer_k, bodyRuns, compiled,
                   history_fine>>
    /\ UNCHANGED notTune

\* base_model.trainable = True
TuneUnfreeze ==
    /\ tpc = "unfreeze"
    /\ base_model' = SetTrainable(base_model, TRUE)
    /\ layer_k' = 0
    /\ tpc' = "freeze"
    /\ UNCHANGED <<fine_tuning_set, fine_tuning, bodyRuns, compiled, history_fine>>
    /\ UNCHANGED notTune

\* for layer in base_model.layers[:fine_tune_at]: layer.trainable = False
TuneFreezeLayer ==
    /\ tpc = "freeze"
    /\ LET slice == SliceTo(Len(base_model.layers), fine_tune_at)
       IN /\ layer_k < Len(slice)
          /\ base_model' = [base_model EXCEPT !.layers[slice[layer_k + 1] + 1] = FALSE]
    /\ layer_k' = layer_k + 1
    /\ UNCHANGED <<tpc, fine_tuning_set, fine_tuning, bodyRuns, compiled, history_fine>>
    /\ UNCHANGED notTune

\* the slice is exhausted
TuneFreezeDone ==
    /\ tpc = "freeze"
    /\ layer_k = Len(SliceTo(Len(base_model.layers), fine_tune_at))
    /\ tpc' = "compile"
    /\ UNCHANGED <<fine_tuning_set, fine_tuning, base_model, layer_k, bodyRuns, compiled,
                   history_fine>>
    /\ UNCHANGED notTune

\* pretrained2.compile(...) with Adam(learning_rate=learning_rate_tn)
TuneCompile ==
    /\ tpc = "compile"
    /\ compiled' = "learning_rate_tn"
    /\ tpc' = "fit"
    /\ UNCHANGED <<fine_tuning_set, fine_tuning, base_model, layer_k, bodyRuns,
                   history_fine>>
    /\ UNCHANGED notTune

\* history_fine = pretrained2.fit(..., epochs=epochs_tn, initial_epoch=history.epoch[-1])
TuneFit ==
    /\ tpc = "fit"
    /\ history_fine' = Append(history_fine,
                              [epochs |-> epochs_tn, initial_epoch |-> epochs_ex - 1,
                               learning_rate |-> compiled, base_model |-> base_model])
    /\ tpc' = "clear"
    /\ UNCHANGED <<fine_tuning_set, fine_tuning, base_model, layer_k, bodyRuns, compiled>>
    /\ UNCHANGED notTune

\* fine_tuning = False
TuneClearFlag ==
    /\ tpc = "clear"
    /\ fine_tuning' = FALSE
    /\ tpc' = "while"
    /\ UNCHANGED <<fine_tuning_set, base_model, layer_k, bodyRuns, compiled, history_fine>>
    /\ UNCHANGED notTune

\* pretrained2.evaluate(x_test, y_test_onehot, verbose=2)
TuneEvaluate ==
    /\ tpc = "evaluate"
    /\ tpc' = "done"
    /\ UNCHANGED <<fine_tuning_set, fine_tuning, base_model, layer_k, bodyRuns, compiled,
                   history_fine>>
    /\ UNCHANGED notTune

(***************************************************************************)
(* A framework call raises: nothing in the script catches it                *)
(***************************************************************************)

\* variant: the error is caught and the script carries on
RaiseCaught ==
    /\ pc \in ScriptPcs
    /\ failedAt = None
    /\ failedAt' = pc
    /\ UNCHANGED <<pc, params, loopvars, nets, locals, counters, outputs>>
    /\ UNCHANGED notGan

\* the exception propagates to the top level and ends the interpreter
Raise ==
    /\ pc \in ScriptPcs
    /\ failedAt' = pc
    /\ pc' = "crashed"
    /\ UNCHANGED <<params, loopvars, nets, locals, counters, outputs>>
    /\ UNCHANGED notGan

Next ==
    \/ TrainEpochStart
    \/ TrainEpochsDone
    \/ TrainBatchNext
    \/ TrainBatchesDone
    \/ TrainStepNoise
    \/ TrainStepGenerate
    \/ TrainStepScoreReal
    \/ TrainStepScoreFake
    \/ TrainStepLoss
    \/ TrainStepGradGen
    \/ TrainStepGradDisc
    \/ TrainStepApplyGen
    \/ TrainStepApplyDisc
    \/ TrainStepReturn
    \/ TrainVisualize
    \/ TrainCheckpoint
    \/ TrainReport
    \/ TrainFinalVisualize
    \/ Restore
    \/ AssembleGif
    \/ Raise

Init == GanInit /\ MatchIdle /\ ShuffleIdle /\ TuneIdle

Spec == Init /\ [][Next]_vars

MatchInit == GanIdle /\ MatchStart /\ ShuffleIdle /\ TuneIdle

MatchNext ==
    \/ MatchFile
    \/ MatchReturn
    \/ LoadFile
    \/ LoadReturn

SpecMatch == MatchInit /\ [][MatchNext]_vars

ShuffleInit == GanIdle /\ MatchIdle /\ ShuffleStart /\ TuneIdle

ShuffleNext ==
    \/ ShuffleArange
    \/ ShuffleIndex
    \/ ShuffleTakeX
    \/ ShuffleTakeY
    \/ ShuffleReturn

SpecShuffle == ShuffleInit /\ [][ShuffleNext]_vars

TuneInit == GanIdle /\ MatchIdle /\ ShuffleIdle /\ TuneStart

TuneNext ==
    \/ TuneLoopEnter
    \/ TuneLoopExit
    \/ TuneUnfreeze
    \/ TuneFreezeLayer
    \/ TuneFreezeDone
    \/ TuneCompile
    \/ TuneFit
    \/ TuneClearFlag
    \/ TuneEvaluate

SpecTune == TuneInit /\ [][TuneNext]_vars

\* the interpreter runs the next statement, and every call returns
FairSpecTune == SpecTune /\ WF_vars(TuneNext)


(***************************************************************************)
(* Properties of the GAN script                                             *)
(***************************************************************************)
\* where the script is, or was when the error was raised
Pos == IF pc = "crashed" THEN failedAt ELSE pc

\* batches per epoch
M == NumBatches(numImages)

AfterNoise == TrainStepPcs \ {"ts_noise"}
AfterGenerate == AfterNoise \ {"ts_gen"}
AfterScoreFake == AfterGenerate \ {"ts_disc_real", "ts_disc_fake"}
AfterGradients == {"ts_apply_gen", "ts_apply_disc", "ts_return"}

\* C1: each call of train_step computes one gradient per tape and applies one
\* update per network: between calls, both networks, both optimizers and both
\* tapes stand at the number of completed calls; inside a call none of them is
\* more than one ahead.
C1_OneUpdatePerNetworkPerStep ==
    ~restored =>
        LET counts == <<generator.trainable, discriminator.trainable,
                        generator_optimizer.iterations,
                        discriminator_optimizer.iterations,
                        tapeCalls.gen_tape, tapeCalls.disc_tape>>
        IN /\ Pos \notin TrainStepPcs => \A i \in 1..6 : counts[i] = nTrainStep
           /\ Pos \in TrainStepPcs =>
                 \A i \in 1..6 : counts[i] \in {nTrainStep, nTrainStep + 1}
           /\ Pos = "ts_return" => \A i \in 1..6 : counts[i] = nTrainStep + 1

C1_Witness ==
    /\ pc = "batches"
    /\ nTrainStep = 3
    /\ generator.trainable = 3
    /\ discriminator.trainable = 3

\* C2: within one train_step the generator runs once and the discriminator
\* scores the real batch and that generated batch once each; both gradients
\* exist before either update; the discriminator gradient that is applied
\* was computed from the generator and discriminator as they were when the
\* step began, although the generator has been updated by then.
C2_GradientsFromStartOfStep ==
    /\ pc \in AfterScoreFake =>
          /\ forwardCalls.generator = nTrainStep + 1
          /\ forwardCalls.discriminator = 2 * nTrainStep + 2
          /\ fake_output.input = generated_images
          /\ real_output.input = image_batch
          /\ generated_images.gen = nTrainStep
    /\ pc = "ts_apply_gen" =>
          /\ tapeCalls = [gen_tape |-> nTrainStep + 1, disc_tape |-> nTrainStep + 1]
          /\ generator.trainable = nTrainStep
          /\ discriminator.trainable = nTrainStep
    /\ pc \in AfterGradients =>
          LET scored == gradients_of_discriminator.loss.terms
          IN /\ scored[1].logits = real_output
             /\ scored[2].logits = fake_output
             /\ scored[2].logits.input.gen = nTrainStep
             /\ scored[2].logits.disc = nTrainStep
             /\ scored[1].logits.disc = nTrainStep
             /\ gradients_of_generator.loss.terms[1].logits = fake_output
    /\ pc = "ts_apply_disc" => generator.trainable = nTrainStep + 1

C2_Witness ==
    /\ pc = "ts_apply_disc"
    /\ nTrainStep = 2
    /\ generator.trainable = 3
    /\ gradients_of_discriminator.loss.terms[2].logits.input.gen = 2

\* C3: the generator's variables only ever receive gradients of the generator
\* loss taken with respect to the generator, the discriminator's only gradients
\* of the discriminator loss taken with respect to the discriminator; the
\* generator's optimizer step leaves the discriminator and its optimizer alone,
\* and the discriminator's step leaves the generator and its optimizer alone.
C3_UpdatesStayInTheirNetwork ==
    /\ [](/\ generator.applied \in {<<None, None>>, <<"gen_loss", "generator">>}
          /\ discriminator.applied \in
                {<<None, None>>, <<"disc_loss", "discriminator">>})
    /\ [][/\ pc = "ts_apply_gen" =>
                UNCHANGED <<discriminator, discriminator_optimizer>>
          /\ pc = "ts_apply_disc" =>
                UNCHANGED <<generator, generator_optimizer>>
          /\ pc \in TrainStepPcs /\ generator_optimizer' # generator_optimizer =>
                /\ pc = "ts_apply_gen"
                /\ generator'.trainable = generator.trainable + 1
          /\ pc \in TrainStepPcs /\ discriminator_optimizer' # discriminator_optimizer =>
                /\ pc = "ts_apply_disc"
                /\ discriminator'.trainable = discriminator.trainable + 1]_vars

C3_Witness ==
    /\ pc = "ts_return"
    /\ generator.applied = <<"gen_loss", "generator">>
    /\ discriminator.applied = <<"disc_loss", "discriminator">>
    /\ generator_optimizer.iterations = 2
    /\ discriminator_optimizer.iterations = 2

\* epochs whose checkpoint test has been passed
SaveTestsDone == IF Pos = "report" THEN epoch + 1 ELSE epoch

\* C4: checkpoint.save runs at the end of exactly the epochs whose 1-indexed
\* number is a multiple of 15: the saves so far are those of epochs 15, 30, ...
\* and a completed run of E epochs has written E div 15 checkpoints.
C4_CheckpointEvery15 ==
    /\ Len(checkpoints) = Len(saveLog)
    /\ Len(saveLog) = SaveTestsDone \div 15
    /\ \A i \in 1..Len(saveLog) : saveLog[i] = 15 * i
    /\ pc \in {"final_vis", "restore", "gif", "done"} => Len(saveLog) = epochs \div 15

C4_Witness ==
    /\ pc = "done"
    /\ epochs = 31
    /\ saveLog = <<15, 30>>

\* C5: train runs train_step once per batch per epoch, epoch after epoch: the
\* number of completed steps is always (completed epochs) * M + (batches done
\* in the current epoch), a step only runs while its epoch has batches left,
\* and a completed run of E epochs has made E * M steps.
C5_OneStepPerBatchPerEpoch ==
    /\ Pos \in TrainStepPcs \cup {"batches", "vis", "save", "report"} =>
          /\ nTrainStep = epoch * M + batchIdx
          /\ batchIdx <= M
          /\ epoch < epochs
    /\ Pos \in TrainStepPcs => batchIdx < M
    /\ Pos \in {"vis", "save", "report"} => batchIdx = M
    /\ Pos = "train" => nTrainStep = epoch * M
    /\ Pos \in {"final_vis", "restore", "gif", "done"} => nTrainStep = epochs * M

C5_Witness ==
    /\ pc = "done"
    /\ epochs = 3
    /\ numImages = BATCH_SIZE + 96
    /\ nTrainStep = 6

\* C6: seed never changes after it is drawn, and every call of
\* generate_and_save_images gets exactly that latent batch, of shape
\* (num_examples_to_generate, noise_dim), never the noise of a training step.
C6_SeedFixed ==
    /\ [](\A i \in 1..Len(visLog) :
            /\ visLog[i].test_input = seed
            /\ visLog[i].test_input.shape = <<16, 100>>)
    /\ [][seed' = seed]_vars

C6_Witness ==
    /\ Len(visLog) >= 16
    /\ Len(checkpoints) >= 1
    /\ nTrainStep >= 16
    /\ visLog[16].test_input = seed


\* C8 as stated: at any point of train() after the first epoch has completed,
\* the latest persisted checkpoint holds the networks and optimizers as they
\* were at the end of the last fully completed epoch.
C8_LatestCheckpointIsLastEpoch ==
    (Pos \in TrainPcs /\ epoch >= 1) =>
        /\ Len(checkpoints) >= 1
        /\ checkpoints[Len(checkpoints)] = epochEnd

\* C8 amended: at any point of train() a checkpoint exists only once 15 epochs
\* have completed, and the latest one holds the networks and optimizers as
\* they were at the end of the last completed epoch whose number is a multiple
\* of 15 (15 * M * (number of checkpoints) updates each); the completed epochs
\* after it, up to 14 of them, are not persisted.
C8_LatestCheckpointIsLastMultipleOf15 ==
    Pos \in TrainPcs =>
        LET k == Len(checkpoints)
        IN /\ k = SaveTestsDone \div 15
           /\ SaveTestsDone - 15 * k \in 0..14
           /\ k >= 1 =>
                /\ checkpoints[k].generator.trainable = 15 * k * M
                /\ checkpoints[k].discriminator.trainable = 15 * k * M
                /\ checkpoints[k].generator_optimizer.iterations = 15 * k * M
                /\ checkpoints[k].discriminator_optimizer.iterations = 15 * k * M
                /\ checkpoints[k].generator.bn = 15 * k * M
           /\ (epoch >= 1 /\ epoch % 15 = 0) => checkpoints[k] = epochEnd

C8_Witness ==
    /\ pc = "ts_gen"
    /\ epoch = 29
    /\ M = 2
    /\ Len(checkpoints) = 1
    /\ checkpoints[1].generator.trainable = 30
    /\ epochEnd.generator.trainable = 58

\* C9: an error raised by a framework call ends the run: once an error has
\* been raised no further step of the script is taken, and when it was raised
\* inside train() neither the restore nor the GIF assembly has run.
C9_ErrorEndsTheRun ==
    /\ [](failedAt # None => pc = "crashed")
    /\ [](failedAt \in TrainPcs => ~restored /\ gifFrames = <<>>)
    /\ [][failedAt = None]_vars

C9_Witness ==
    /\ pc = "crashed"
    /\ failedAt = "ts_grad_disc"
    /\ nTrainStep = 2
    /\ epoch = 1
    /\ epochs = 3

\* C10: every train_step draws noise of shape (BATCH_SIZE, noise_dim) and so
\* generates and scores BATCH_SIZE synthetic samples, while the real scores
\* are as many as the image batch holds.
C10_LatentBatchHasConfiguredShape ==
    /\ pc \in AfterNoise => noise.shape = <<BATCH_SIZE, noise_dim>>
    /\ pc \in AfterGenerate => generated_images.n = BATCH_SIZE
    /\ pc \in AfterScoreFake =>
          /\ fake_output.n = BATCH_SIZE
          /\ real_output.n = image_batch.n

C10_Witness ==
    /\ pc = "ts_loss"
    /\ image_batch.n = 96
    /\ generated_images.n = 256
    /\ fake_output.n = 256
    /\ real_output.n = 96


(***************************************************************************)
(* Properties of the segmentation script                                    *)
(***************************************************************************)
\* get_matched_fpath has returned
Matched == mpc \in {"load", "loaded", "load_error"}

\* the mask file of that name has a pixel above zero
HasPositivePixel(name) == \E k \in 1..MaskLen : maskPixels[name][k] > 0

\* the files get_matched_fpath requires beside the path f
HasMaskFile(f) == InList(SplitExt(f.name)[1] \o DotPng, mask_f)
HasAdcFile(f) == InList(SwapModality(SplitExt(f.name)[1]) \o DotDcm, img_f)

\* C7 as stated: every path get_matched_fpath returns has a same-stem mask
\* file in GT with at least one positive pixel and, in dual-modality mode, its
\* ADC counterpart in the input folder.
C7_ReturnedPathsHaveLesionMask ==
    Matched =>
        \A k \in 1..Len(fname_dwi) :
            LET f == fname_dwi[k]
            IN /\ HasMaskFile(f)
               /\ HasPositivePixel(SplitExt(f.name)[1] \o DotPng)
               /\ ~is_DWI_only => HasAdcFile(f)

\* C7 amended: every path get_matched_fpath returns is a file of the input
\* folder whose name contains 'DWI', with a same-stem .png file in GT and, in
\* dual-modality mode, its ADC .dcm counterpart in the input folder; the mask
\* may be empty. A positive pixel is only guaranteed for the samples that
\* load_images keeps.
C7_ReturnedPathsHaveMaskAndAdc ==
    /\ \A k \in 1..Len(fname_dwi) :
          LET f == fname_dwi[k]
          IN /\ f.folder = "input"
             /\ InList(f.name, img_f)
             /\ Contains(f.name, DWI)
             /\ HasMaskFile(f)
             /\ ~is_DWI_only => HasAdcFile(f)
    /\ \A k \in 1..Len(ys) :
          /\ HasPositivePixel(SplitExt(ys[k].path.name)[1] \o DotPng)
          /\ \E j \in 1..MaskLen : ys[k].pixels[j] = 1

C7_Witness ==
    /\ mpc = "loaded"
    /\ ~is_DWI_only
    /\ Len(fname_dwi) = 2
    /\ Len(ys) = 1
    /\ ~HasPositivePixel(SplitExt(fname_dwi[2].name)[1] \o DotPng)
    /\ Len(mask_f) = 3
    /\ Len(img_f) = 5


\* the path f has a mask file with a pixel above zero
KeepsMask(f) == HasPositivePixel(SplitExt(f.name)[1] \o DotPng)

\* the paths of the samples in ys, in order
PathsOf(samples) == [k \in 1..Len(samples) |-> samples[k].path]

\* C11: load_images keeps exactly the paths whose mask has a positive pixel,
\* in the order given; xs and ys have the same length, xs[i] and ys[i] come
\* from the same path, and every mask kept has a positive pixel after
\* thresholding.
C11_LoadKeepsAlignedLesionSamples ==
    /\ Len(xs) = Len(ys)
    /\ \A k \in 1..Len(ys) :
          /\ xs[k][Len(xs[k])] = ys[k].path
          /\ \E j \in 1..MaskLen : ys[k].pixels[j] = 1
          /\ \A j \in 1..MaskLen : ys[k].pixels[j] \in {0, 1}
    /\ mpc \in {"load", "loaded"} =>
          PathsOf(ys) = SelectSeq(SubSeq(fname_dwi, 1, li), KeepsMask)
    /\ mpc = "loaded" => li = Len(fname_dwi)

C11_Witness ==
    /\ mpc = "loaded"
    /\ is_DWI_only
    /\ Len(fname_dwi) = 3
    /\ Len(ys) = 2
    /\ ~KeepsMask(fname_dwi[1])
    /\ ys[2].path = fname_dwi[3]
    /\ maskPixels[MaskName(fname_dwi[2])] = <<0, 255>>

AfterLoss == AfterScoreFake \ {"ts_loss"}

\* C12: the discriminator loss is the cross-entropy of the real scores against
\* 1 plus that of the fake scores against 0, the generator loss the
\* cross-entropy of the same fake scores against 1, and train_step hands back
\* the generator loss first and the discriminator loss second.
C12_LossWiring ==
    /\ pc \in AfterLoss =>
          /\ disc_loss.terms = <<[label |-> 1, logits |-> real_output],
                                 [label |-> 0, logits |-> fake_output]>>
          /\ gen_loss.terms = <<[label |-> 1, logits |-> fake_output]>>
          /\ real_output.of = "real"
          /\ real_output.input = image_batch
          /\ fake_output.of = "fake"
          /\ fake_output.input = generated_images
    /\ Len(gen_losses) = Len(disc_losses)
    /\ \A k \in 1..Len(gen_losses) :
          /\ gen_losses[k].name = "gen_loss"
          /\ disc_losses[k].name = "disc_loss"
          /\ gen_losses[k].step = disc_losses[k].step

C12_Witness ==
    /\ pc = "batches"
    /\ Len(gen_losses) = 2
    /\ gen_losses[2] = [name |-> "gen_loss", step |-> 4]
    /\ disc_losses[2] = [name |-> "disc_loss", step |-> 4]


\* the files get_matched_fpath found for the returned path f in dual-modality
\* mode: the input file itself, the ADC file and the mask file it tested for
FoundFor(f) ==
    {f,
     [folder |-> "input", name |-> SwapModality(SplitExt(f.name)[1]) \o DotDcm],
     [folder |-> "GT", name |-> SplitExt(f.name)[1] \o DotPng]}

\* the file is in the folder it is opened from
Present(o) ==
    \/ o.folder = "input" /\ InList(o.name, img_f)
    \/ o.folder = "GT" /\ InList(o.name, mask_f)

\* C17: in dual-modality mode every file load_images opens is one of the files
\* get_matched_fpath found for a returned path (the path itself, its ADC
\* counterpart, its mask), so every file opened is present in its folder.
C17_LoadOpensOnlyMatchedFiles ==
    (Matched /\ ~is_DWI_only) =>
        \A k \in 1..Len(opened) :
            /\ \E j \in 1..Len(fname_dwi) : opened[k] \in FoundFor(fname_dwi[j])
            /\ Present(opened[k])

(***************************************************************************)
(* Properties of the GAN script: files and checkpoints of a run             *)
(***************************************************************************)
\* train() has returned
TrainReturned == Pos \in {"restore", "gif", "done"}

\* the order of an epoch's events: every batch of the epoch has been stepped
\* when its picture is written under the 1-indexed epoch number, the picture
\* shows the generator as those steps left it, and the checkpoint test comes
\* after the picture
EpochOrder ==
    /\ pc = "vis" =>
          /\ batchIdx = M
          /\ nTrainStep = (epoch + 1) * M
          /\ Len(visLog) = epoch
    /\ pc = "save" =>
          /\ Len(visLog) = epoch + 1
          /\ visLog[epoch + 1].epoch = epoch + 1
          /\ imageFiles[epoch + 1].gen = (epoch + 1) * M
          /\ Len(saveLog) = epoch \div SaveEvery
    /\ pc = "report" =>
          /\ Len(visLog) = epoch + 1
          /\ Len(saveLog) = (epoch + 1) \div SaveEvery
    /\ Pos \in TrainPcs \ {"final_vis"} =>
          /\ \A k \in 1..Len(visLog) : visLog[k].epoch = k
          /\ DOMAIN imageFiles = 1..Len(visLog)
    /\ TrainReturned =>
          /\ Len(visLog) = epochs + 1
          /\ \A k \in 1..epochs : visLog[k].epoch = k
          /\ visLog[epochs + 1].epoch = epochs
          /\ imageFiles[epochs].gen = epochs * M

\* C14: in each epoch the training steps come first, then the picture of the
\* 1-indexed epoch, then the checkpoint test; the picture written after the
\* loop goes under the name of epoch number epochs, and a run of E epochs
\* leaves the E files numbered 1..E.
C14_RunLeavesFiles1ToE ==
    /\ EpochOrder
    /\ TrainReturned => DOMAIN imageFiles = 1..epochs

\* C14 amended: the same order of events; a run of E >= 1 epochs leaves the E
\* files numbered 1..E, the last one overwritten by the picture written after
\* the loop, and a run of 0 epochs leaves the one file numbered 0.
C14_RunLeavesFiles1ToEOrFile0 ==
    /\ EpochOrder
    /\ TrainReturned =>
          DOMAIN imageFiles = IF epochs = 0 THEN {0} ELSE 1..epochs

C14_Witness ==
    /\ pc = "done"
    /\ epochs = 16
    /\ M = 2
    /\ DOMAIN imageFiles = 1..16
    /\ Len(visLog) = 17
    /\ saveLog = <<15>>

\* C15: a checkpoint is written only between the batch loop of an epoch and
\* the next epoch, with no step under way, and the generator, the
\* discriminator and both optimizers it holds have each received
\* (epoch number) * (batches per epoch) updates.
C15_CheckpointsAreEpochBoundarySnapshots ==
    /\ [](/\ Len(checkpoints) = Len(saveLog)
          /\ \A i \in 1..Len(checkpoints) :
                LET c == checkpoints[i]
                    n == saveLog[i] * M
                IN /\ c.generator.trainable = n
                   /\ c.generator.bn = n
                   /\ c.discriminator.trainable = n
                   /\ c.generator_optimizer.iterations = n
                   /\ c.discriminator_optimizer.iterations = n)
    /\ [][checkpoints' # checkpoints =>
             /\ pc = "save"
             /\ batchIdx = M
             /\ nTrainStep = (epoch + 1) * M
             /\ image_batch' = image_batch
             /\ locals = <<None, None, None, None, None, None, None, None>>
             /\ checkpoints' = Append(checkpoints, Snapshot)
             /\ saveLog' = Append(saveLog, epoch + 1)]_vars

C15_Witness ==
    /\ pc = "ts_loss"
    /\ epoch = 30
    /\ M = 2
    /\ Len(checkpoints) = 2
    /\ checkpoints[2].generator.trainable = 60
    /\ checkpoints[2].discriminator_optimizer.iterations = 60
    /\ generator.trainable = 61

\* C16: once checkpoint.restore has run, the networks and optimizers are those
\* of the end of the largest epoch number that is a multiple of 15 and at most
\* epochs, whatever later epochs did; with fewer than 15 epochs there is no
\* checkpoint and they stay as the last epoch left them.
C16_RestoreRollsBackToLastSavedEpoch ==
    (Pos \in {"gif", "done"}) =>
        LET n == IF epochs < SaveEvery
                 THEN epochs * M
                 ELSE SaveEvery * (epochs \div SaveEvery) * M
        IN /\ restored
           /\ Len(checkpoints) = 0 <=> epochs < SaveEvery
           /\ nTrainStep = epochs * M
           /\ generator.trainable = n
           /\ generator.bn = n
           /\ discriminator.trainable = n
           /\ generator_optimizer.iterations = n
           /\ discriminator_optimizer.iterations = n
           /\ epochs \in 1..(SaveEvery - 1) => Snapshot = epochEnd
           /\ epochs >= SaveEvery => Snapshot = checkpoints[Len(checkpoints)]

C16_Witness ==
    /\ pc = "done"
    /\ epochs = EPOCHS
    /\ M = 2
    /\ nTrainStep = 100
    /\ generator.trainable = 90
    /\ discriminator_optimizer.iterations = 90
    /\ saveLog = <<15, 30, 45>>

(***************************************************************************)
(* Properties of shuffle_ds                                                 *)
(***************************************************************************)
\* the ways of rearranging n positions
Rearrangements(n) ==
    {p \in [1..n -> 1..n] : \A i, j \in 1..n : i # j => p[i] # p[j]}

\* C13: shuffle_ds rearranges x and y by one and the same permutation of the
\* first axis: the result has the length of the input, holds each input
\* sample once, and pairs x[i] with the y[i] it was paired with.
C13_ShuffleKeepsPairs ==
    spc = "shuffled" =>
        /\ Len(x_train) = Len(x_all)
        /\ Len(y_train) = Len(y_all)
        /\ \E p \in Rearrangements(Len(x_all)) :
              \A k \in 1..Len(x_all) :
                  /\ x_train[k] = x_all[p[k]]
                  /\ y_train[k] = y_all[p[k]]

C13_Witness ==
    /\ spc = "shuffled"
    /\ x_all = <<"p", "q", "q">>
    /\ y_all = <<"q", "p", "q">>
    /\ shuffle_idx = <<2, 0, 1>>
    /\ x_train = <<"q", "p", "q">>
    /\ y_train = <<"q", "q", "p">>


(***************************************************************************)
(* Properties of the fine-tuning loop                                       *)
(***************************************************************************)
\* C18: the while loop ends after one pass: its body is entered once when
\* fine_tuning is set and never otherwise, the script always gets past the
\* loop, and in that pass the base model is trainable as a whole while its
\* layers of index below 16 are frozen and the others are trainable.
C18_FineTuningLoopRunsOnce ==
    /\ [](/\ bodyRuns <= 1
          /\ tpc \in {"evaluate", "done"} =>
                /\ bodyRuns = (IF fine_tuning_set THEN 1 ELSE 0)
                /\ ~fine_tuning
          /\ tpc \in {"compile", "fit", "clear"} =>
                /\ bodyRuns = 1
                /\ base_model.trainable
                /\ \A j \in 1..Len(base_model.layers) :
                      base_model.layers[j] = (j - 1 >= fine_tune_at)
          /\ tpc \in {"clear", "evaluate", "done"} /\ fine_tuning_set =>
                /\ Len(history_fine) = 1
                /\ history_fine[1].base_model = base_model
                /\ history_fine[1].learning_rate = "learning_rate_tn")
    /\ <>(tpc = "done")

C18_Witness ==
    /\ tpc = "done"
    /\ fine_tuning_set
    /\ bodyRuns = 1
    /\ Len(base_model.layers) = 18
    /\ ~base_model.layers[16]
    /\ base_model.layers[17]
    /\ base_model.trainable

====
